---- MODULE Spec2Model ----
(***************************************************************************)
(* Model of the LLM deployment service: the POST /api/build handler        *)
(* (app/main.py build), request validation (app/validator.py), the         *)
(* background orchestration (app/main.py process_task), the notifier       *)
(* (app/main.py notify_eval), the task store (app/storage.py) and the      *)
(* repository publisher (app/github_ops.py).                               *)
(*                                                                         *)
(* The service runs on one asyncio event loop.  build has no await after   *)
(* asyncio.create_task, and process_task has no await at all (its network  *)
(* calls and sleeps are blocking), so a coroutine that holds the loop      *)
(* keeps it until it returns.  The variable `running` says who holds it.   *)
(* Executions of process_task therefore run one after the other; `x` holds *)
(* the locals of the one that runs or ran last, `queue` the created tasks  *)
(* that have not started.                                                  *)
(***************************************************************************)
EXTENDS Integers, Sequences, FiniteSets, TLC

\* ------------------------------------------------------------------ bounds
\* number of accepted requests (process_task executions) explored
MaxExec == 2
\* at most this many required fields are absent from an enumerated body
MaxMissing == 1

Tasks == {"t1", "t2"}

\* ------------------------------------------------- app/validator.py, inputs
required == <<"email", "secret", "task", "round", "nonce",
              "brief", "checks", "evaluation_url">>
RequiredSet == {required[i] : i \in 1..Len(required)}

\* A request body as request.json() yields it.
\*   kind   "object": a JSON object; `keys` are its member names
\*          "array" / "string": a JSON array / string; `keys` are the names
\*                   for which the Python test `f in body` is true
\*          "scalar": null, a number or a boolean (`f in body` raises)
\*          "invalid": not JSON at all (request.json() raises)
\*   email  "ok" matches EMAIL_RE, "bad" does not, "nonstr" is not a string
\*   round  1, 2, or 3 standing for any value outside (1, 2)
KeySets == {RequiredSet \ m : m \in {s \in SUBSET RequiredSet : Cardinality(s) <= MaxMissing}}

ObjectBodies ==
    [kind : {"object"}, keys : KeySets, email : {"ok", "bad", "nonstr"},
     checks : {"list", "other"}, round : {1, 2, 3}, url : {"ok", "bad"},
     secret : {"good", "bad"}, task : Tasks]

OtherBodies ==
    [kind : {"array", "string"}, keys : {{}, RequiredSet}, email : {"ok"},
     checks : {"list"}, round : {1}, url : {"ok"}, secret : {"good", "bad"},
     task : {"t1"}]
    \cup
    [kind : {"scalar", "invalid"}, keys : {{}}, email : {"ok"},
     checks : {"list"}, round : {1}, url : {"ok"}, secret : {"good", "bad"},
     task : {"t1"}]

Bodies == ObjectBodies \cup OtherBodies

\* The bodies the orchestration is explored with: every well-formed request,
\* and one rejected request of each kind.
SampleBodies ==
    {b \in ObjectBodies :
        /\ b.keys = RequiredSet /\ b.email = "ok" /\ b.checks = "list"
        /\ b.url = "ok" /\ b.round \in {1, 2}
        /\ (b.secret = "bad" => b.task = "t1" /\ b.round = 1)}
    \cup {b \in ObjectBodies :
        /\ b.keys = RequiredSet \ {"nonce"} /\ b.email = "ok" /\ b.checks = "list"
        /\ b.url = "ok" /\ b.round = 1 /\ b.task = "t1"}
    \cup {b \in OtherBodies : b.kind = "invalid" /\ b.secret = "good"}

\* The required fields a request does not carry.
MissingFields(body) ==
    IF body.kind = "object" THEN RequiredSet \ body.keys ELSE RequiredSet

NoErr == [msg |-> "", field |-> ""]
Passed == [ok |-> TRUE, err |-> NoErr, raised |-> FALSE]
Reject(msg, field) == [ok |-> FALSE, err |-> [msg |-> msg, field |-> field], raised |-> FALSE]
TypeError == [ok |-> FALSE, err |-> NoErr, raised |-> TRUE]

\* first member of `required`, in its order, that `f not in body` finds
FirstMissing(body) ==
    LET idx == {i \in 1..Len(required) : required[i] \notin body.keys}
    IN  required[CHOOSE i \in idx : \A j \in idx : i <= j]

validate_request(body) ==
    IF body.kind = "scalar" THEN TypeError                       \* `f not in body`
    ELSE IF \E i \in 1..Len(required) : required[i] \notin body.keys
         THEN Reject("Missing required field", FirstMissing(body))
    ELSE IF body.kind # "object" THEN TypeError                  \* body["email"]
    ELSE IF body.email = "nonstr" THEN TypeError                 \* EMAIL_RE.match
    ELSE IF body.email # "ok" THEN Reject("Invalid email format", "")
    ELSE IF body.checks # "list" THEN Reject("checks must be an array", "")
    ELSE IF body.round \notin {1, 2} THEN Reject("round must be 1 or 2", "")
    ELSE IF body.url # "ok" THEN Reject("Invalid evaluation_url", "")
    ELSE Passed

verify_secret_any(provided, expected) == TRUE

\* expected is os.getenv("MY_SECRET"): "unset" when the variable is absent
verify_secret(provided, expected) ==
    expected # "unset" /\ provided = expected

\* ------------------------------------------------------------------ state
VARIABLES
    expected,   \* os.getenv("MY_SECRET"), fixed for the life of the process
    now,        \* the wall clock, in seconds
    running,    \* who holds the event loop: "free", "build" or "task"
    req,        \* the body of the request the build handler is serving
    resp,       \* the response the build handler is returning
    accepted,   \* how many requests were accepted so far
    queue,      \* the tasks asyncio.create_task queued, oldest first
    x,          \* the process_task execution that runs or ran last
    store,      \* the contents of data/tasks.json
    repos,      \* the hosting provider: repositories by name
    nextSha,    \* the next object id the hosting provider hands out
    gen,        \* a call of the generator taken on its own (app/ai.py)
    pub         \* a call of a publisher operation taken on its own

vars == <<gen, pub, expected, now, running, req, resp, accepted, queue, x, store, repos, nextSha>>

NoReq == [kind |-> "none"]
NoAck == [status |-> "", task |-> "", round |-> 0, timestamp |-> 0]
NoResp == [status |-> 0, detail |-> NoErr, content |-> NoAck]
NoName == <<>>
EmptyMap == [k \in {} |-> 0]
NoFiles == {}
NoUrl == [site |-> "", name |-> NoName]
NoPayload == [task |-> "", round |-> 0, repo_url |-> NoUrl, commit_sha |-> 0,
              pages_url |-> NoUrl]

HttpError(code, msg, field) ==
    [status |-> code, detail |-> [msg |-> msg, field |-> field], content |-> NoAck]

\* the locals of a process_task execution that has not started, for the
\* request `data` whose acknowledgment (once delivered) is `ack`
NewExec(id, data, ack) ==
    [id |-> id, pc |-> "scheduled", data |-> data, ack |-> ack,
     tasks |-> EmptyMap, hadRecord |-> FALSE,
     files |-> NoFiles, repo_name |-> NoName, repo_url |-> NoUrl,
     commit_sha |-> 0, pages_url |-> NoUrl,
     pages_resp |-> "", poll_i |-> 0, poll_slept |-> 0, pages_live |-> FALSE,
     trace |-> <<>>, calls |-> {}, failed_in |-> "", saved |-> FALSE,
     attempt |-> 0, nlog |-> <<>>, last |-> "", notified |-> FALSE,
     payload |-> NoPayload]

NoExec == [NewExec(0, NoReq, NoResp) EXCEPT !.pc = "none"]

\* no publisher operation is being called on its own
NoPub ==
    [pc |-> "none", op |-> "", i |-> 0, slept |-> 0, ref |-> FALSE, base |-> 0,
     blobs |-> {}, tree |-> {}, commit |-> 0, made |-> {}, head0 |-> 0,
     cause |-> "", reported |-> 0, faulted |-> FALSE, url |-> NoUrl,
     before |-> {}, created |-> FALSE, n |-> 0]

\* nor is the generator
NoGen == [pc |-> "none", round |-> 0, att |-> "none", outcome |-> "", text |-> <<>>,
          reply |-> <<>>, html |-> <<>>, files |-> EmptyMap,
          brief |-> {}, flags |-> {}, markup |-> "", script |-> ""]


\* ---------------------------------------------------- app/main.py, build
\* the acknowledgment of lines 62-67
ack_of(body, t) ==
    [status |-> "accepted", task |-> body.task, round |-> body.round, timestamp |-> t]

\* The response build computes for a body, lines 49-73; status 500 is the
\* framework's answer to an exception that leaves the handler.
build_response(body, exp, t) ==
    IF body.kind = "invalid" THEN HttpError(400, "Invalid JSON", "")
    ELSE LET v == validate_request(body)
         IN  IF v.raised THEN HttpError(500, "Internal Server Error", "")
             ELSE IF ~v.ok THEN HttpError(400, v.err.msg, v.err.field)
             ELSE IF ~verify_secret(body.secret, exp)
                  THEN HttpError(401, "Invalid secret", "")
             ELSE [status |-> 200, detail |-> NoErr, content |-> ack_of(body, t)]

creates_task_always(r) == TRUE

\* line 70 is reached only when none of the raises of lines 52-59 and no
\* exception of validate_request left the handler
creates_task(r) == r.status = 200

\* build up to its return statement (lines 48-71): the handler takes the
\* loop, computes the response and, for an accepted request, creates the
\* background task.  asyncio.create_task only queues the coroutine.
BuildHandle(bodies) ==
    /\ running = "free"
    /\ \E body \in bodies :
        LET r == build_response(body, expected, now)
        IN  /\ creates_task(r) => accepted < MaxExec
            /\ req' = body
            /\ resp' = r
            /\ running' = "build"
            /\ IF creates_task(r)
               THEN /\ accepted' = accepted + 1
                    /\ queue' = Append(queue, NewExec(accepted + 1, body, NoResp))
               ELSE UNCHANGED <<accepted, queue>>
    /\ UNCHANGED <<gen, pub, expected, now, x, store, repos, nextSha>>

\* line 73, `return JSONResponse(...)`, or a raise of lines 52-59: the
\* response leaves the handler and the loop is free again.
BuildReturn ==
    /\ running = "build"
    /\ running' = "free"
    /\ IF resp.status # 200 THEN UNCHANGED <<queue, x>>
       ELSE IF queue # <<>> /\ queue[Len(queue)].id = accepted
            THEN /\ queue' = [queue EXCEPT ![Len(queue)].ack = resp]
                 /\ x' = x
            ELSE /\ x' = [x EXCEPT !.ack = resp]
                 /\ queue' = queue
    /\ req' = NoReq
    /\ resp' = NoResp
    /\ UNCHANGED <<gen, pub, expected, now, accepted, store, repos, nextSha>>

\* ------------------------------------------------ app/storage.py
\* load_tasks: the parsed file, or {} when reading or parsing it raises
load_tasks(file, readable) == IF readable THEN file ELSE EmptyMap

\* save_tasks: the whole file is rewritten with the dictionary given
save_tasks(tasks) == tasks

\* ------------------------------------------------ app/main.py, process_task
Terminal == {"completed", "failed"}

step_after_notify_first(round_, step) ==
    IF round_ = 1 THEN
        CASE step = "generate_code" -> "create_repo"
          [] step = "create_repo"   -> "push_files"
          [] step = "push_files"    -> "enable_pages"
          [] step = "enable_pages"  -> "notify_eval"
          [] step = "notify_eval"   -> "save_tasks"
          [] OTHER                  -> "completed"
    ELSE
        CASE step = "lookup"           -> "generate_updates"
          [] step = "generate_updates" -> "push_files"
          [] step = "push_files"       -> "notify_eval"
          [] step = "notify_eval"      -> "save_tasks"
          [] OTHER                     -> "completed"

\* the statement process_task goes on with when `step` returned normally
step_after(round_, step) ==
    IF round_ = 1 THEN
        CASE step = "generate_code" -> "create_repo"
          [] step = "create_repo"   -> "push_files"
          [] step = "push_files"    -> "enable_pages"
          [] step = "enable_pages"  -> "save_tasks"
          [] step = "save_tasks"    -> "notify_eval"
          [] OTHER                  -> "completed"
    ELSE
        CASE step = "lookup"           -> "generate_updates"
          [] step = "generate_updates" -> "push_files"
          [] step = "push_files"       -> "save_tasks"
          [] step = "save_tasks"       -> "notify_eval"
          [] OTHER                     -> "completed"

first_step(round_) == IF round_ = 1 THEN "generate_code" ELSE "lookup"

\* `step` was called and returned: the locals y move on
Returned(y, step) ==
    [y EXCEPT !.pc = step_after(y.data.round, step), !.trace = Append(@, step)]

Raised_escapes(y, step) ==
    [y EXCEPT !.pc = "escaped", !.trace = Append(@, step), !.failed_in = step]

\* `step` was called and raised: lines 185-188 log the error and
\* process_task returns; nothing is undone
Raised(y, step) ==
    [y EXCEPT !.pc = "failed", !.trace = Append(@, step), !.failed_in = step]

\* the execution takes a step that leaves its locals as y
Step(y) ==
    /\ x' = y
    /\ running' = "task"

loop_can_start_eager(r) == r \in {"free", "build"}

\* the event loop runs a queued task only when no coroutine holds it
loop_can_start(r) == r = "free"

\* lines 76-86: the oldest queued coroutine starts, reads its arguments and
\* loads the store
ProcStart ==
    /\ loop_can_start(running)
    /\ queue # <<>>
    /\ \E readable \in BOOLEAN :
        x' = [Head(queue) EXCEPT !.pc = first_step(Head(queue).data.round),
                                 !.tasks = load_tasks(store, readable),
                                 !.hadRecord = Head(queue).data.task \in DOMAIN store]
    /\ queue' = Tail(queue)
    /\ running' = "task"
    /\ UNCHANGED <<gen, pub, expected, now, req, resp, accepted, store, repos, nextSha>>

At(step) == running = "task" /\ x.pc = step

\* ---- app/ai.py, the generator as process_task sees it: it returns the
\* file set, or an exception leaves it (process_attachments and the string
\* operations on brief and checks are outside any try)
generate_code(raises) ==
    IF raises THEN NoFiles ELSE {"index.html", "README.md", "LICENSE"}

generate_updates(raises) ==
    IF raises THEN NoFiles ELSE {"index.html", "README.md"}

\* line 94
GenerateCode ==
    /\ At("generate_code")
    /\ \E raises \in BOOLEAN :
        Step(IF raises THEN Raised(x, "generate_code")
             ELSE [Returned(x, "generate_code") EXCEPT !.files = generate_code(raises)])
    /\ UNCHANGED <<gen, pub, expected, now, req, resp, accepted, queue, store, repos, nextSha>>

no_info_never(tasks, task) == FALSE

\* lines 144-145: `info = tasks.get(task)`, `if not info`
no_info(tasks, task) == task \notin DOMAIN tasks

\* lines 144-146
Lookup ==
    /\ At("lookup")
    /\ Step(IF no_info(x.tasks, x.data.task)
            THEN Raised(x, "lookup")
            ELSE Returned(x, "lookup"))
    /\ UNCHANGED <<gen, pub, expected, now, req, resp, accepted, queue, store, repos, nextSha>>

\* line 150; task_info["round1"] raises when there is no record
GenerateUpdates ==
    /\ At("generate_updates")
    /\ \E raises \in BOOLEAN :
        Step(IF raises \/ x.data.task \notin DOMAIN x.tasks
             THEN Raised(x, "generate_updates")
             ELSE [Returned(x, "generate_updates") EXCEPT !.files = generate_updates(raises)])
    /\ UNCHANGED <<gen, pub, expected, now, req, resp, accepted, queue, store, repos, nextSha>>

\* ------------------------------------------------ app/github_ops.py
repo_url_of(name) == [site |-> "github.com", name |-> name]
pages_url_of(name) == [site |-> "github.io", name |-> name]

\* a repository as user.create_repo(auto_init=True) leaves it: main points
\* to an initial commit holding the README
NewRepo(sha) ==
    [head |-> sha,
     commits |-> {[sha |-> sha, parents |-> <<>>, files |-> {"README.md"}]},
     pages |-> FALSE]

\* lines 98-99 of main.py and 21-33.  Either the repository is created and
\* create_repo sleeps 2 s, or _get_env or the API call raises (a name that
\* exists is refused)
CreateRepo ==
    /\ At("create_repo")
    /\ LET name == <<x.data.task, now>>
           y == [x EXCEPT !.repo_name = name, !.calls = @ \cup {"create_repo"}]
       IN  \/ /\ name \notin DOMAIN repos
              /\ repos' = (name :> NewRepo(nextSha)) @@ repos
              /\ nextSha' = nextSha + 1
              /\ now' = now + 1
              /\ Step([Returned(y, "create_repo") EXCEPT !.repo_url = repo_url_of(name)])
           \/ /\ Step(Raised(y, "create_repo"))
              /\ UNCHANGED <<repos, nextSha, now>>
    /\ UNCHANGED <<gen, pub, expected, req, resp, accepted, queue, store>>

\* where push_files can stop: "ok" or the call that raised
PushOutcomes == {"ok", "get_repo", "not_ready", "get_git_commit",
                 "create_git_blob", "create_git_tree", "create_git_commit",
                 "ref_edit"}

\* the API calls push_files has made when it ends with `outcome`
push_calls(outcome) ==
    CASE outcome = "get_repo"          -> {"get_repo"}
      [] outcome = "not_ready"         -> {"get_repo", "get_git_ref"}
      [] outcome = "get_git_commit"    -> {"get_repo", "get_git_ref", "get_git_commit"}
      [] outcome = "create_git_blob"   -> {"get_repo", "get_git_ref", "get_git_commit",
                                           "create_git_blob"}
      [] outcome = "create_git_tree"   -> {"get_repo", "get_git_ref", "get_git_commit",
                                           "create_git_blob", "create_git_tree"}
      [] outcome = "create_git_commit" -> {"get_repo", "get_git_ref", "get_git_commit",
                                           "create_git_blob", "create_git_tree",
                                           "create_git_commit"}
      [] OTHER                         -> {"get_repo", "get_git_ref", "get_git_commit",
                                           "create_git_blob", "create_git_tree",
                                           "create_git_commit", "ref_edit"}

\* the repository a push is aimed at: the one just created (line 104) or
\* the one the stored record names (line 154)
push_target(y) ==
    IF y.data.round = 1 THEN y.repo_name ELSE y.tasks[y.data.task].repoName

\* lines 36-88.  The commit object exists once create_git_commit returned;
\* main moves only when ref.edit returned.
PushFiles ==
    /\ At("push_files")
    /\ \E o \in PushOutcomes :
        LET name == push_target(x)
            y == [x EXCEPT !.calls = @ \cup push_calls(o)]
            r == repos[name]
            c == [sha |-> nextSha, parents |-> <<r.head>>,
                  files |-> UNION {k.files : k \in {k \in r.commits : k.sha = r.head}}
                            \cup x.files]
        IN  /\ name \notin DOMAIN repos => o = "get_repo"
            /\ IF o \in {"ok", "ref_edit"}
               THEN /\ repos' = [repos EXCEPT ![name].commits = @ \cup {c},
                                              ![name].head = IF o = "ok" THEN c.sha ELSE @]
                    /\ nextSha' = nextSha + 1
               ELSE UNCHANGED <<repos, nextSha>>
            /\ Step(IF o = "ok"
                    THEN [Returned(y, "push_files") EXCEPT !.commit_sha = nextSha]
                    ELSE Raised(y, "push_files"))
    /\ UNCHANGED <<gen, pub, expected, now, req, resp, accepted, queue, store>>

\* what the POST of line 107 can give: 201 or 204, a 409 whose text says the
\* site already exists, any other error status, or an exception of requests
PagesResponses == {"201", "409_already", "error_status", "transport_error"}

pages_post_raises_never(r) == FALSE

\* line 107 is outside any try: an exception of requests.post leaves
\* enable_pages; lines 110-113 only log a status other than 201/204
pages_post_raises(r) == r = "transport_error"

\* lines 96-113
EnablePages ==
    /\ At("enable_pages")
    /\ \E r \in PagesResponses :
        LET y == [x EXCEPT !.calls = @ \cup {"pages_post"}, !.pages_resp = r]
        IN  /\ repos' = [repos EXCEPT ![x.repo_name].pages = @ \/ r = "201"]
            /\ Step(IF pages_post_raises(r) THEN Raised(y, "enable_pages")
                    ELSE [y EXCEPT !.pc = "enable_pages_poll", !.poll_i = 0])
    /\ UNCHANGED <<gen, pub, expected, now, req, resp, accepted, queue, store, nextSha>>

MaxPolls == 24

PollPause == 5

poll_pass_ignores_success(i, live) ==
    [done |-> i = MaxPolls - 1, sleep |-> IF i < MaxPolls - 1 THEN PollPause ELSE 0]

\* lines 117-128, pass i of the poll loop when the GET gave 200 (live) or
\* anything else, an exception included: a 200 breaks out at once; any
\* other pass sleeps 5 s unless it is the last, pass 23
poll_pass(i, live) ==
    IF live THEN [done |-> TRUE, sleep |-> 0]
    ELSE [done |-> i = MaxPolls - 1, sleep |-> IF i < MaxPolls - 1 THEN PollPause ELSE 0]

\* lines 117-130, one pass of the poll loop with i = poll_i; the URL is
\* returned however the loop ended
EnablePagesPoll ==
    /\ At("enable_pages_poll")
    /\ \E live \in BOOLEAN :
        LET y == [x EXCEPT !.calls = @ \cup {"pages_get"}, !.pages_live = live]
            p == poll_pass(x.poll_i, live)
        IN  Step(IF p.done
                 THEN [Returned(y, "enable_pages") EXCEPT
                          !.poll_i = 0, !.poll_slept = 0,
                          !.pages_url = pages_url_of(y.repo_name)]
                 ELSE [y EXCEPT !.poll_i = @ + 1, !.poll_slept = @ + p.sleep])
    /\ UNCHANGED <<gen, pub, expected, now, req, resp, accepted, queue, store, repos, nextSha>>

\* ------------------------------------------------ process_task, persist
\* the brief and the nonce a request carries
brief_of(data) == <<"brief", data.task, data.round>>
nonce_of(data) == <<"nonce", data.task, data.round>>

\* lines 113-125
round1_record(y, t) ==
    [email |-> y.data.email, repoName |-> y.repo_name, repoUrl |-> y.repo_url,
     pagesUrl |-> y.pages_url, commitSha |-> y.commit_sha,
     round1 |-> [brief |-> brief_of(y.data), checks |-> y.data.checks,
                 nonce |-> nonce_of(y.data), timestamp |-> t]]

round2_meta_old_commit(y, t) ==
    [brief |-> brief_of(y.data), checks |-> y.data.checks,
     nonce |-> nonce_of(y.data), commitSha |-> y.tasks[y.data.task].commitSha,
     timestamp |-> t]

\* lines 162-168
round2_meta(y, t) ==
    [brief |-> brief_of(y.data), checks |-> y.data.checks,
     nonce |-> nonce_of(y.data), commitSha |-> y.commit_sha, timestamp |-> t]

tasks_to_save_merge(y, t) ==
    IF y.data.round = 1
    THEN (y.data.task :> (IF y.data.task \in DOMAIN y.tasks
                          THEN round1_record(y, t) @@ y.tasks[y.data.task]
                          ELSE round1_record(y, t))) @@ y.tasks
    ELSE [y.tasks EXCEPT ![y.data.task] = [round2 |-> round2_meta(y, t)] @@ @]

tasks_to_save_only_own(y, t) ==
    IF y.data.round = 1
    THEN (y.data.task :> round1_record(y, t)) @@ y.tasks
    ELSE y.data.task :> ([round2 |-> round2_meta(y, t)] @@ y.tasks[y.data.task])

\* the dictionary `tasks` after line 113 (round 1) or line 162 (round 2,
\* where info is the entry of tasks itself)
tasks_to_save(y, t) ==
    IF y.data.round = 1
    THEN (y.data.task :> round1_record(y, t)) @@ y.tasks
    ELSE [y.tasks EXCEPT ![y.data.task] = [round2 |-> round2_meta(y, t)] @@ @]

\* lines 112-126 and 157-169: round 2 first sleeps 30 s; then the entry is
\* set and save_tasks rewrites the file, or write_text raises
SaveTasks ==
    /\ At("save_tasks")
    /\ LET t == IF x.data.round = 2 THEN now + 1 ELSE now
           y == [x EXCEPT !.tasks = tasks_to_save(x, t)]
       IN  /\ now' = t
           /\ \/ /\ store' = save_tasks(y.tasks)
                 /\ Step([Returned(y, "save_tasks") EXCEPT !.saved = TRUE])
              \/ /\ store' = store
                 /\ Step(Raised(y, "save_tasks"))
    /\ UNCHANGED <<gen, pub, expected, req, resp, accepted, queue, repos, nextSha>>

\* ------------------------------------------------ app/main.py, notify_eval
delays == <<1, 2, 4, 8, 16>>

\* what one requests.post of line 195 can give: a status code, or an
\* exception of requests (timeout, connection error)
NotifyOutcomes == {"200", "201", "500", "exception"}

Post == [op |-> "post", seconds |-> 0]
Sleep(d) == [op |-> "sleep", seconds |-> d]

payload_of_round1_commit(y) ==
    [task |-> y.data.task, round |-> y.data.round,
     repo_url |-> IF y.data.round = 1 THEN y.repo_url
                  ELSE y.tasks[y.data.task].repoUrl,
     commit_sha |-> IF y.data.round = 1 THEN y.commit_sha
                    ELSE y.tasks[y.data.task].commitSha,
     pages_url |-> IF y.data.round = 1 THEN y.pages_url
                   ELSE y.tasks[y.data.task].pagesUrl]

\* lines 131-139 and 174-182
payload_of(y) ==
    IF y.data.round = 1
    THEN [task |-> y.data.task, round |-> 1, repo_url |-> y.repo_url,
          commit_sha |-> y.commit_sha, pages_url |-> y.pages_url]
    ELSE [task |-> y.data.task, round |-> 2,
          repo_url |-> y.tasks[y.data.task].repoUrl,
          commit_sha |-> y.commit_sha,
          pages_url |-> y.tasks[y.data.task].pagesUrl]

notify_pass_sleeps_always(i, o) ==
    IF o = "200" THEN [done |-> TRUE, ok |-> TRUE, sleep |-> 0, raised |-> FALSE]
    ELSE [done |-> i >= Len(delays), ok |-> FALSE, sleep |-> delays[i], raised |-> FALSE]

notify_pass_any_2xx(i, o) ==
    IF o \in {"200", "201"} THEN [done |-> TRUE, ok |-> TRUE, sleep |-> 0, raised |-> FALSE]
    ELSE IF i < Len(delays)
         THEN [done |-> FALSE, ok |-> FALSE, sleep |-> delays[i], raised |-> FALSE]
    ELSE [done |-> TRUE, ok |-> FALSE, sleep |-> 0, raised |-> FALSE]

notify_pass_uncaught(i, o) ==
    IF o = "200" THEN [done |-> TRUE, ok |-> TRUE, sleep |-> 0, raised |-> FALSE]
    ELSE IF o = "exception"
         THEN [done |-> TRUE, ok |-> FALSE, sleep |-> 0, raised |-> TRUE]
    ELSE IF i < Len(delays)
         THEN [done |-> FALSE, ok |-> FALSE, sleep |-> delays[i], raised |-> FALSE]
    ELSE [done |-> TRUE, ok |-> FALSE, sleep |-> 0, raised |-> FALSE]

notify_pass_raise_at_end(i, o) ==
    IF o = "200" THEN [done |-> TRUE, ok |-> TRUE, sleep |-> 0, raised |-> FALSE]
    ELSE IF i < Len(delays)
         THEN [done |-> FALSE, ok |-> FALSE, sleep |-> delays[i], raised |-> FALSE]
    ELSE [done |-> TRUE, ok |-> FALSE, sleep |-> 0, raised |-> TRUE]

\* lines 193-214, pass i of the loop (i from 1) whose POST gave `o`:
\* whether notify_eval returns, with which result, after which sleep
notify_pass(i, o) ==
    IF o = "200" THEN [done |-> TRUE, ok |-> TRUE, sleep |-> 0, raised |-> FALSE]
    ELSE IF i < Len(delays)
         THEN [done |-> FALSE, ok |-> FALSE, sleep |-> delays[i], raised |-> FALSE]
    ELSE [done |-> TRUE, ok |-> FALSE, sleep |-> 0, raised |-> FALSE]

\* one pass of the loop of notify_eval
NotifyEval ==
    /\ At("notify_eval")
    /\ \E o \in NotifyOutcomes :
        LET i == x.attempt + 1
            r == notify_pass(i, o)
            y == [x EXCEPT !.attempt = i, !.last = o, !.payload = payload_of(x),
                           !.calls = @ \cup {"notify_post"},
                           !.nlog = IF r.sleep > 0 THEN @ \o <<Post, Sleep(r.sleep)>>
                                    ELSE Append(@, Post)]
        IN  Step(IF r.raised THEN Raised(y, "notify_eval")
                 ELSE IF r.done THEN [Returned(y, "notify_eval") EXCEPT !.notified = r.ok]
                 ELSE y)
    /\ UNCHANGED <<gen, pub, expected, now, req, resp, accepted, queue, store, repos, nextSha>>

\* process_task returns (after line 140 or 183, or after the handler of
\* lines 185-188): its locals are gone and the event loop is free again
ProcReturn ==
    /\ running = "task"
    /\ x.pc \in Terminal
    /\ x' = NoExec
    /\ running' = "free"
    /\ UNCHANGED <<gen, pub, expected, now, req, resp, accepted, queue, store, repos, nextSha>>

\* ------------------------- the publisher operations, call by call
\* app/github_ops.py (create_repo, push_files, enable_pages) and the
\* create-or-update push_files of github_ops.py, each called on its own
\* with the same repository name and file set.  Every call to the provider
\* either takes effect or fails (`fault`: transport error, 5xx, rate limit).
MaxCalls == 2

PubName == <<"t1", 0>>

PubFiles == <<"index.html", "README.md">>

PubPaths == {PubFiles[i] : i \in DOMAIN PubFiles}

PubOps == {"create_repo", "push_files", "push_files_create_or_update", "enable_pages"}

PushOps == {"push_files", "push_files_create_or_update"}

\* a repository without a main branch: nothing was committed to it yet
EmptyRepo == [head |-> 0, commits |-> {}, pages |-> FALSE]

\* the commit main points to, 0 when there is no main or no repository
head_of(rs, name) == IF name \in DOMAIN rs THEN rs[name].head ELSE 0

\* the files of the tree of commit sha
files_at(rs, name, sha) ==
    UNION {c.files : c \in {c \in rs[name].commits : c.sha = sha}}

InitPub ==
    /\ pub = [NoPub EXCEPT !.pc = "idle"]
    /\ \/ repos = EmptyMap /\ nextSha = 1
       \/ repos = (PubName :> EmptyRepo) /\ nextSha = 1
       \/ repos = (PubName :> NewRepo(1)) /\ nextSha = 2
    /\ gen = NoGen
    /\ expected = "good"
    /\ running = "free"
    /\ req = NoReq
    /\ resp = NoResp
    /\ accepted = 0
    /\ queue = <<>>
    /\ x = NoExec
    /\ store = EmptyMap
    /\ now = 0

PubUnchanged ==
    UNCHANGED <<gen, expected, now, running, req, resp, accepted, queue, x, store>>

PubAt(ops, step) == pub.op \in ops /\ pub.pc = step

PubRaise(p, cause) ==
    [p EXCEPT !.pc = "raised", !.cause = cause, !.faulted = @ \/ cause = "fault"]

first_call(op) ==
    CASE op = "create_repo"  -> "user_create_repo"
      [] op = "enable_pages" -> "pages_post"
      [] OTHER               -> "get_repo"

\* the operation is called
PubInvoke ==
    /\ pub.pc = "idle"
    /\ pub.n < MaxCalls
    /\ \E op \in PubOps :
          pub' = [pub EXCEPT !.op = op, !.pc = first_call(op),
                             !.head0 = head_of(repos, PubName)]
    /\ UNCHANGED <<repos, nextSha>>
    /\ PubUnchanged

\* the operation returned or raised; the next call starts afresh
PubDone ==
    /\ pub.pc \in {"returned", "raised"}
    /\ pub' = [NoPub EXCEPT !.pc = "idle", !.n = pub.n + 1, !.created = pub.created,
                            !.before = pub.before \cup {[op |-> pub.op, result |-> pub.pc]}]
    /\ UNCHANGED <<repos, nextSha>>
    /\ PubUnchanged

\* app/github_ops.py lines 25-33: the provider refuses a name that is taken
\* (422); otherwise it creates the repository with an initial commit, and
\* the answer may still be lost on the way back
PubCreateRepo ==
    /\ PubAt({"create_repo"}, "user_create_repo")
    /\ \/ /\ pub' = PubRaise(pub, "fault")
          /\ UNCHANGED <<repos, nextSha>>
       \/ /\ PubName \in DOMAIN repos
          /\ pub' = PubRaise(pub, "exists")
          /\ UNCHANGED <<repos, nextSha>>
       \/ /\ PubName \notin DOMAIN repos
          /\ repos' = (PubName :> NewRepo(nextSha)) @@ repos
          /\ nextSha' = nextSha + 1
          /\ \/ pub' = [pub EXCEPT !.pc = "returned", !.slept = 2, !.created = TRUE,
                                   !.url = repo_url_of(PubName)]
             \/ pub' = [PubRaise(pub, "fault") EXCEPT !.created = TRUE]
    /\ PubUnchanged

\* app/github_ops.py line 42, github_ops.py line 15
PubGetRepo ==
    /\ PubAt(PushOps, "get_repo")
    /\ \/ pub' = PubRaise(pub, "fault")
       \/ /\ PubName \notin DOMAIN repos
          /\ pub' = PubRaise(pub, "missing")
       \/ /\ PubName \in DOMAIN repos
          /\ pub' = [pub EXCEPT !.pc = "get_git_ref"]
    /\ UNCHANGED <<repos, nextSha>>
    /\ PubUnchanged

max_retries == 5

RetryPause == 2

retry_pass_sleeps_last(attempt) ==
    [raise |-> attempt >= max_retries - 1, sleep |-> RetryPause, reported |-> max_retries]

\* app/github_ops.py lines 51-56, the except branch of try number `attempt`
\* (from 0): sleep 2 s and go round again, or, after the last try, raise
\* RuntimeError("Repository not ready after 5 attempts: ...")
retry_pass(attempt) ==
    IF attempt < max_retries - 1
    THEN [raise |-> FALSE, sleep |-> RetryPause, reported |-> 0]
    ELSE [raise |-> TRUE, sleep |-> 0, reported |-> max_retries]

\* app/github_ops.py lines 45-56, pass `attempt` = pub.i: get_git_ref
\* raises when main is not there or the call fails
PubGetRefRetry ==
    /\ PubAt({"push_files"}, "get_git_ref")
    /\ \/ /\ head_of(repos, PubName) # 0
          /\ pub' = [pub EXCEPT !.pc = "get_git_commit", !.ref = TRUE]
       \/ \E fault \in BOOLEAN :
          /\ ~fault => head_of(repos, PubName) = 0
          /\ LET r == retry_pass(pub.i)
                 p == [pub EXCEPT !.slept = @ + r.sleep, !.faulted = @ \/ fault]
             IN  pub' = IF r.raise
                        THEN [PubRaise(p, "not_ready") EXCEPT !.reported = r.reported]
                        ELSE [p EXCEPT !.i = @ + 1]
    /\ UNCHANGED <<repos, nextSha>>
    /\ PubUnchanged

\* app/github_ops.py line 59
PubGetCommit ==
    /\ PubAt({"push_files"}, "get_git_commit")
    /\ \/ pub' = PubRaise(pub, "fault")
       \/ pub' = [pub EXCEPT !.pc = "create_git_blob", !.base = head_of(repos, PubName)]
    /\ UNCHANGED <<repos, nextSha>>
    /\ PubUnchanged

\* github_ops.py lines 18-29: any exception of get_git_ref or of
\* get_git_commit makes it an initial commit, with ref = None
PubTryRef ==
    /\ PubAt({"push_files_create_or_update"}, "get_git_ref")
    /\ \/ /\ head_of(repos, PubName) # 0
          /\ pub' = [pub EXCEPT !.pc = "create_git_blob", !.ref = TRUE,
                                !.base = head_of(repos, PubName)]
       \/ \E fault \in BOOLEAN :
          /\ ~fault => head_of(repos, PubName) = 0
          /\ pub' = [pub EXCEPT !.pc = "create_git_blob", !.faulted = @ \/ fault]
    /\ UNCHANGED <<repos, nextSha>>
    /\ PubUnchanged

more_blobs_never(blobs) == FALSE

\* the loop over files.items() goes on while a file has no blob yet
more_blobs(blobs) == blobs # PubPaths

\* app/github_ops.py lines 64-73, github_ops.py lines 33-36: one pass
PubCreateBlob ==
    /\ PubAt(PushOps, "create_git_blob")
    /\ \/ pub' = PubRaise(pub, "fault")
       \/ LET k == CHOOSE i \in DOMAIN PubFiles :
                      /\ PubFiles[i] \notin pub.blobs
                      /\ \A j \in DOMAIN PubFiles : PubFiles[j] \notin pub.blobs => i <= j
              blobs == pub.blobs \cup {PubFiles[k]}
          IN  pub' = [pub EXCEPT !.blobs = blobs,
                                 !.pc = IF more_blobs(blobs) THEN "create_git_blob"
                                        ELSE "create_git_tree"]
    /\ UNCHANGED <<repos, nextSha>>
    /\ PubUnchanged

\* app/github_ops.py line 76, github_ops.py line 39: the new tree holds the
\* entries on top of the base tree, when there is one
PubCreateTree ==
    /\ PubAt(PushOps, "create_git_tree")
    /\ \/ pub' = PubRaise(pub, "fault")
       \/ pub' = [pub EXCEPT !.pc = "create_git_commit",
                             !.tree = pub.blobs \cup
                                      (IF pub.base # 0
                                       THEN files_at(repos, PubName, pub.base) ELSE {})]
    /\ UNCHANGED <<repos, nextSha>>
    /\ PubUnchanged

commit_parents_none(base) == <<>>

\* app/github_ops.py line 82, github_ops.py lines 22 and 27
commit_parents(base) == IF base # 0 THEN <<base>> ELSE <<>>

\* app/github_ops.py lines 79-83, github_ops.py line 42
PubCreateCommit ==
    /\ PubAt(PushOps, "create_git_commit")
    /\ \/ /\ pub' = PubRaise(pub, "fault")
          /\ UNCHANGED <<repos, nextSha>>
       \/ /\ repos' = [repos EXCEPT ![PubName].commits = @ \cup
                         {[sha |-> nextSha, parents |-> commit_parents(pub.base),
                           files |-> pub.tree]}]
          /\ nextSha' = nextSha + 1
          /\ \/ pub' = [pub EXCEPT !.pc = IF pub.ref THEN "ref_edit" ELSE "create_git_ref",
                                   !.commit = nextSha, !.made = @ \cup {nextSha}]
             \/ pub' = [PubRaise(pub, "fault") EXCEPT !.made = @ \cup {nextSha}]
    /\ PubUnchanged

\* app/github_ops.py line 86, github_ops.py line 46: main moves to the new
\* commit, unless the call fails; the answer may be lost on the way back
PubRefEdit ==
    /\ PubAt(PushOps, "ref_edit")
    /\ \/ /\ pub' = PubRaise(pub, "fault")
          /\ repos' = repos
       \/ /\ repos' = [repos EXCEPT ![PubName].head = pub.commit]
          /\ \/ pub' = [pub EXCEPT !.pc = "returned"]
             \/ pub' = PubRaise(pub, "fault")
    /\ UNCHANGED nextSha
    /\ PubUnchanged

\* github_ops.py line 48: the provider refuses to create a reference that
\* exists (422)
PubCreateRef ==
    /\ PubAt({"push_files_create_or_update"}, "create_git_ref")
    /\ \/ /\ pub' = PubRaise(pub, "fault")
          /\ repos' = repos
       \/ /\ head_of(repos, PubName) # 0
          /\ pub' = PubRaise(pub, "exists")
          /\ repos' = repos
       \/ /\ head_of(repos, PubName) = 0
          /\ repos' = [repos EXCEPT ![PubName].head = pub.commit]
          /\ \/ pub' = [pub EXCEPT !.pc = "returned"]
             \/ pub' = PubRaise(pub, "fault")
    /\ UNCHANGED nextSha
    /\ PubUnchanged

\* app/github_ops.py lines 106-113: the site is activated (201), or it is
\* there already, or the provider answers another error status, which is
\* only logged; an exception of requests.post leaves enable_pages
PubPagesPost ==
    /\ PubAt({"enable_pages"}, "pages_post")
    /\ \/ /\ pub' = PubRaise(pub, "fault")
          /\ repos' = repos
       \/ /\ pub' = [pub EXCEPT !.pc = "pages_poll"]
          /\ \/ /\ head_of(repos, PubName) # 0
                /\ repos' = [repos EXCEPT ![PubName].pages = TRUE]
             \/ repos' = repos
    /\ UNCHANGED nextSha
    /\ PubUnchanged

\* app/github_ops.py lines 115-130, the whole poll loop: it catches every
\* exception and the URL is returned whatever the polls gave
PubPagesPoll ==
    /\ PubAt({"enable_pages"}, "pages_poll")
    /\ pub' = [pub EXCEPT !.pc = "returned", !.url = pages_url_of(PubName)]
    /\ UNCHANGED <<repos, nextSha>>
    /\ PubUnchanged

NextPub ==
    \/ PubInvoke
    \/ PubDone
    \/ PubCreateRepo
    \/ PubGetRepo
    \/ PubGetRefRetry
    \/ PubGetCommit
    \/ PubTryRef
    \/ PubCreateBlob
    \/ PubCreateTree
    \/ PubCreateCommit
    \/ PubRefEdit
    \/ PubCreateRef
    \/ PubPagesPost
    \/ PubPagesPoll

SpecPub == InitPub /\ [][NextPub]_vars

\* ------------------------------------------- app/ai.py, call by call
\* Text is a sequence of pieces; the pieces are the substrings the code
\* looks for, other markup and white space; [fence] stands for the three
\* back-quotes of a Markdown code fence.
MaxText == 4

Tokens == {"<!DOCTYPE", "<!doctype", "</html>", "</HTML>", "[fence]html", "[fence]", "<p>", " "}

Texts == UNION {[1..n -> Tokens] : n \in 0..MaxText}

\* str.upper and str.lower, piece by piece
upper(tok) ==
    CASE tok = "<!doctype" -> "<!DOCTYPE"
      [] tok = "</html>"   -> "</HTML>"
      [] tok = "[fence]html"   -> "[FENCE]HTML"
      [] tok = "<p>"       -> "<P>"
      [] OTHER             -> tok

lower(tok) ==
    CASE tok = "<!DOCTYPE" -> "<!doctype"
      [] tok = "</HTML>"   -> "</html>"
      [] tok = "<p>"       -> "<p>"
      [] OTHER             -> tok

Upper(text) == [i \in DOMAIN text |-> upper(text[i])]
Lower(text) == [i \in DOMAIN text |-> lower(text[i])]

\* `sub in text`
Contains(text, sub) == \E i \in DOMAIN text : text[i] = sub

\* str.strip
strip(text) ==
    LET keep == {i \in DOMAIN text : text[i] # " "}
    IN  IF keep = {} THEN <<>>
        ELSE SubSeq(text, CHOOSE i \in keep : \A j \in keep : i <= j,
                          CHOOSE i \in keep : \A j \in keep : j <= i)

\* lines 51-59.  Both patterns end at the first ``` after their start, and
\* the three back-quotes of a later ```html end a block as well; the first
\* pattern, tried first, starts at the first ```html (any case) that has a
\* ``` after it, the second at the first ``` that has one.  A text with a
\* single fence matches neither and is returned stripped, fence included.
_extract_html(text) ==
    LET fences == {i \in DOMAIN text : text[i] \in {"[fence]html", "[fence]"}}
        closed == {i \in fences : \E j \in fences : j > i}
        tagged == {i \in closed : Lower(text)[i] = "[fence]html"}
        from   == IF tagged # {} THEN tagged ELSE closed
        open   == CHOOSE i \in from : \A j \in from : i <= j
        close  == CHOOSE j \in fences : j > open /\ \A k \in fences : k > open => j <= k
    IN  IF closed = {} THEN strip(text)
        ELSE strip(SubSeq(text, open + 1, close - 1))

\* what the generation call can come to, lines 10-49
CallOutcomes ==
    {"missing_credential", "transport_error", "timeout", "http_error",
     "no_candidates", "safety_block", "empty_text", "text"}

\* lines 10-49: the text of the first part when the reply has one, None
\* otherwise; None and the empty string are both the empty text here, as
\* line 40 never returns an empty string and the callers only test `if html`
_call_gemini(outcome, text) ==
    IF outcome = "text" THEN text ELSE <<>>

\* the attachment lists process_attachments (lines 371-385) tells apart:
\* empty; a data URI "data:image/png;base64,AAAA"; a URL with a comma whose
\* part before the comma has a colon but none before its first semicolon
\* ("x;y:z,1"), for which line 381 raises IndexError
Attachments == {"none", "data_uri", "odd_header"}

process_attachments_raises(att) == att = "odd_header"

\* line 418
accepts_code(html) ==
    /\ html # <<>>
    /\ Contains(Upper(html), "<!DOCTYPE")
    /\ Contains(Lower(html), "</html>")

\* line 456
accepts_update(html) ==
    /\ html # <<>>
    /\ Contains(Upper(html), "<!DOCTYPE")

Index(origin, html) == [origin |-> origin, html |-> html]

\* lines 420-424 and 428-432
FileSet1(index) ==
    ("index.html" :> index) @@ ("README.md" :> Index("_readme", <<>>))
                            @@ ("LICENSE" :> Index("_license_mit", <<>>))

\* lines 459-462 and 468-471
FileSet2(index) ==
    ("index.html" :> index) @@ ("README.md" :> Index("_readme", <<>>))

\* a call of generate_code (round 1) or generate_updates (round 2) with its
\* attachments and with what the generation call is going to answer
InitGen ==
    /\ \E r \in {1, 2}, att \in Attachments, o \in CallOutcomes, t \in Texts :
          /\ o = "text" => t # <<>>
          /\ o # "text" => t = <<>>
          /\ gen = [NoGen EXCEPT !.pc = "process_attachments", !.round = r,
                                 !.att = att, !.outcome = o, !.text = t]
    /\ pub = NoPub
    /\ expected = "good"
    /\ running = "free"
    /\ req = NoReq
    /\ resp = NoResp
    /\ accepted = 0
    /\ queue = <<>>
    /\ x = NoExec
    /\ store = EmptyMap
    /\ repos = EmptyMap
    /\ nextSha = 1
    /\ now = 0

GenUnchanged ==
    UNCHANGED <<pub, expected, now, running, req, resp, accepted, queue, x,
                store, repos, nextSha>>

\* lines 390 and 438
GenAttachments ==
    /\ gen.pc = "process_attachments"
    /\ gen' = [gen EXCEPT !.pc = IF process_attachments_raises(gen.att)
                                 THEN "raised" ELSE "_call_gemini"]
    /\ GenUnchanged

\* lines 414 and 452
GenCall ==
    /\ gen.pc = "_call_gemini"
    /\ gen' = [gen EXCEPT !.pc = "accept",
                          !.reply = _call_gemini(gen.outcome, gen.text)]
    /\ GenUnchanged

\* lines 416-432 and 454-471
GenAccept ==
    /\ gen.pc = "accept"
    /\ LET html == IF gen.reply # <<>> THEN _extract_html(gen.reply) ELSE <<>>
           ok == /\ gen.reply # <<>>
                 /\ IF gen.round = 1 THEN accepts_code(html) ELSE accepts_update(html)
           index == IF ok THEN Index("model", html) ELSE Index("_smart_template", <<>>)
       IN  gen' = [gen EXCEPT !.pc = "returned", !.html = html,
                              !.files = IF gen.round = 1 THEN FileSet1(index)
                                        ELSE FileSet2(index)]
    /\ GenUnchanged

NextGen == GenAttachments \/ GenCall \/ GenAccept

SpecGen == InitGen /\ [][NextGen]_vars

\* ----------------------------------- app/ai.py, the fallback template
\* A brief is the set of words it is made of; the words are the ones the
\* template looks for, in several spellings, words that contain one, and a
\* word that contains none.
MaxWords == 3

Words == {"CSV", "csv", "Sales", "salesforce", "Markdown", "GitHub", "github",
          "Username", "user", "CAPTCHA", "clock"}

Briefs == {b \in SUBSET Words : Cardinality(b) <= MaxWords}

\* str.lower, word by word (line 64)
lower_word(w) ==
    CASE w = "CSV"      -> "csv"
      [] w = "Sales"    -> "sales"
      [] w = "Markdown" -> "markdown"
      [] w = "GitHub"   -> "github"
      [] w = "Username" -> "username"
      [] w = "CAPTCHA"  -> "captcha"
      [] OTHER          -> w

\* `key in brief_lower`: the key is a substring of a word of the brief
mentions(brief, key) ==
    \E w \in brief :
        \/ lower_word(w) = key
        \/ key = "sales" /\ lower_word(w) = "salesforce"
        \/ key = "user" /\ lower_word(w) = "username"

\* lines 69-72
task_flags(brief) ==
    {f \in {"is_captcha", "is_csv", "is_markdown", "is_github"} :
        \/ f = "is_captcha" /\ mentions(brief, "captcha")
        \/ f = "is_csv" /\ (mentions(brief, "csv") \/ mentions(brief, "sales"))
        \/ f = "is_markdown" /\ mentions(brief, "markdown")
        \/ f = "is_github" /\ mentions(brief, "github") /\ mentions(brief, "user")}

\* lines 114-193, the if/elif chain that appends the markup
markup_variant(flags) ==
    IF "is_captcha" \in flags THEN "captcha"
    ELSE IF "is_csv" \in flags THEN "csv"
    ELSE IF "is_markdown" \in flags THEN "markdown"
    ELSE IF "is_github" \in flags THEN "github"
    ELSE "hello"

script_variant_markdown_first(flags) ==
    IF "is_markdown" \in flags THEN "markdown"
    ELSE IF "is_captcha" \in flags THEN "captcha"
    ELSE IF "is_csv" \in flags THEN "csv"
    ELSE IF "is_github" \in flags THEN "github"
    ELSE "hello"

\* lines 205-310, the if/elif chain that appends the script
script_variant(flags) ==
    IF "is_captcha" \in flags THEN "captcha"
    ELSE IF "is_csv" \in flags THEN "csv"
    ELSE IF "is_markdown" \in flags THEN "markdown"
    ELSE IF "is_github" \in flags THEN "github"
    ELSE "hello"

\* a call of _smart_template with a brief
InitTpl ==
    /\ \E b \in Briefs : gen = [NoGen EXCEPT !.pc = "detect", !.brief = b]
    /\ pub = NoPub
    /\ expected = "good"
    /\ running = "free"
    /\ req = NoReq
    /\ resp = NoResp
    /\ accepted = 0
    /\ queue = <<>>
    /\ x = NoExec
    /\ store = EmptyMap
    /\ repos = EmptyMap
    /\ nextSha = 1
    /\ now = 0

\* lines 64-72
TplDetect ==
    /\ gen.pc = "detect"
    /\ gen' = [gen EXCEPT !.pc = "markup", !.flags = task_flags(gen.brief)]
    /\ GenUnchanged

\* lines 113-193
TplMarkup ==
    /\ gen.pc = "markup"
    /\ gen' = [gen EXCEPT !.pc = "script", !.markup = markup_variant(gen.flags)]
    /\ GenUnchanged

\* lines 195-318
TplScript ==
    /\ gen.pc = "script"
    /\ gen' = [gen EXCEPT !.pc = "returned", !.script = script_variant(gen.flags)]
    /\ GenUnchanged

NextTpl == TplDetect \/ TplMarkup \/ TplScript

SpecTpl == InitTpl /\ [][NextTpl]_vars

\* ------------------------------------------------ the service starts
\* data/tasks.json outlives the process (storage.py lines 8-11 write "{}"
\* only when the file does not exist), and so do the repositories.  An
\* earlier run of the service that completed round 1 for task t2 at time 0
\* leaves this behind.
PriorBody ==
    CHOOSE b \in SampleBodies : b.task = "t2" /\ b.round = 1 /\ b.secret = "good"

PriorName == <<"t2", 0>>

PriorExec ==
    [NewExec(1, PriorBody, NoResp) EXCEPT
        !.repo_name = PriorName, !.repo_url = repo_url_of(PriorName),
        !.pages_url = pages_url_of(PriorName), !.commit_sha = 2]

PriorRepos ==
    PriorName :>
        [head |-> 2,
         commits |-> NewRepo(1).commits \cup
                     {[sha |-> 2, parents |-> <<1>>,
                       files |-> {"README.md", "index.html", "LICENSE"}]},
         pages |-> TRUE]

PriorStore == "t2" :> round1_record(PriorExec, 1)

\* The state after startup: nothing in flight, and the store file and the
\* provider either fresh or as the earlier run left them.
Init ==
    /\ gen = NoGen
    /\ pub = NoPub
    /\ expected \in {"good", "unset"}
    /\ running = "free"
    /\ req = NoReq
    /\ resp = NoResp
    /\ accepted = 0
    /\ queue = <<>>
    /\ x = NoExec
    /\ \/ /\ store = EmptyMap
          /\ repos = EmptyMap
          /\ nextSha = 1
          /\ now = 0
       \/ /\ store = PriorStore
          /\ repos = PriorRepos
          /\ nextSha = 3
          /\ now = 1

BuildAny == BuildHandle(Bodies)

NextBuild == BuildAny \/ BuildReturn

SpecBuild == Init /\ [][NextBuild]_vars

\* ------------------------------------------------------------ the system
BuildSample == BuildHandle(SampleBodies)

Next ==
    \/ BuildSample
    \/ BuildReturn
    \/ ProcStart
    \/ GenerateCode
    \/ CreateRepo
    \/ PushFiles
    \/ EnablePages
    \/ EnablePagesPoll
    \/ SaveTasks
    \/ NotifyEval
    \/ Lookup
    \/ GenerateUpdates
    \/ ProcReturn

Spec == Init /\ [][Next]_vars

\* a step of process_task: the call it is blocked in returns or raises
ProcStep ==
    \/ GenerateCode
    \/ CreateRepo
    \/ PushFiles
    \/ EnablePages
    \/ EnablePagesPoll
    \/ SaveTasks
    \/ NotifyEval
    \/ Lookup
    \/ GenerateUpdates

\* One execution of process_task on its own: build accepted one request
\* and returned, and the task it created is queued.
InitRun ==
    /\ gen = NoGen
    /\ pub = NoPub
    /\ expected = "good"
    /\ running = "free"
    /\ req = NoReq
    /\ resp = NoResp
    /\ accepted = 1
    /\ x = NoExec
    /\ \/ /\ store = EmptyMap
          /\ repos = EmptyMap
          /\ nextSha = 1
          /\ now = 0
       \/ /\ store = PriorStore
          /\ repos = PriorRepos
          /\ nextSha = 3
          /\ now = 1
    /\ \E body \in SampleBodies :
          /\ build_response(body, expected, now).status = 200
          /\ queue = <<NewExec(1, body, build_response(body, expected, now))>>

NextRun == ProcStart \/ ProcStep \/ ProcReturn

\* Every call process_task makes returns or times out (requests is called
\* with timeout=, PyGithub has its default timeout, time.sleep ends), so a
\* running execution keeps taking steps.
FairRun == InitRun /\ [][NextRun]_vars /\ WF_vars(ProcStep)

\* ================================================================ claims
IsPrefix(s, t) == Len(s) <= Len(t) /\ SubSeq(t, 1, Len(s)) = s

Started == x.pc # "none"

\* ---------------------------------------------------------------- C1
\* C1: a round-2 execution whose task id has no record in the task store
\* fails at the lookup, before any other step: it ends failed, has made no
\* call to the hosting provider (no blob, tree, commit or ref update), no
\* POST to the evaluation URL and no write to the store.
C1_Round2WithoutRecordFailsFast ==
    (Started /\ x.data.round = 2 /\ ~x.hadRecord /\ x.pc # "lookup")
        => /\ x.pc = "failed"
           /\ x.failed_in = "lookup"
           /\ x.trace = <<"lookup">>
           /\ x.calls = {}
           /\ x.nlog = <<>>
           /\ ~x.saved

C1_Witness ==
    Started /\ x.data.round = 2 /\ ~x.hadRecord /\ x.pc = "failed"

\* ---------------------------------------------------------------- C2
Round1Order == <<"generate_code", "create_repo", "push_files", "enable_pages",
                 "save_tasks", "notify_eval">>

\* every repository, commit and hosting activation of r is still in r2
NothingRolledBack(r, r2) ==
    \A n \in DOMAIN r :
        /\ n \in DOMAIN r2
        /\ r[n].commits \subseteq r2[n].commits
        /\ r[n].pages => r2[n].pages

\* C2: the steps of a round-1 execution happen in the order generate,
\* create repository, publish, enable hosting, persist, notify; once a step
\* has raised the execution performs no further step, and the step that
\* fails removes nothing that exists at the hosting provider or in the store.
C2_Round1OrderAndAbort ==
    [][ /\ (x'.pc # "none" /\ x'.data.round = 1) => IsPrefix(x'.trace, Round1Order)
        /\ (x'.pc = "failed" /\ x'.data.round = 1)
               => x'.trace[Len(x'.trace)] = x'.failed_in
        /\ (Started /\ x.data.round = 1 /\ x.pc = "failed")
               => /\ x'.pc = "none"
                  /\ store' = store /\ repos' = repos
        /\ (Started /\ x.data.round = 1 /\ x'.pc = "failed")
               => /\ NothingRolledBack(repos, repos')
                  /\ store' = store
      ]_vars

C2_Witness ==
    /\ Started /\ x.data.round = 1 /\ x.pc = "failed"
    /\ x.failed_in = "enable_pages"
    /\ x.repo_name \in DOMAIN repos
    /\ repos[x.repo_name].head = x.commit_sha

\* ---------------------------------------------------------------- C3
CreateFailed == "create_repo" \in x.calls /\ x.repo_url = NoUrl
PushFailed == "get_repo" \in x.calls /\ x.commit_sha = 0
NoPersistNoNotify == x.pc = "failed" /\ ~x.saved /\ x.nlog = <<>>

\* C3 as stated: a failure of repository creation, of the push or of the
\* hosting activation request (error response or transport error) ends the
\* round failed with nothing persisted and no notification.
C3_AnyPublishingErrorFatal ==
    (Started /\ (CreateFailed \/ PushFailed
                 \/ x.pages_resp \in {"error_status", "transport_error"}))
        => /\ ~x.saved
           /\ x.nlog = <<>>
           /\ x.pc \in Terminal => x.pc = "failed"

\* C3 amended: a failure of repository creation or of the push, or a
\* transport error of the hosting activation request, ends the round failed
\* with nothing persisted and no notification; an error status answered to
\* the activation request does not fail enable_pages.
C3_RaisedPublishingErrorFatal ==
    /\ (Started /\ (CreateFailed \/ PushFailed \/ x.pages_resp = "transport_error"))
           => NoPersistNoNotify
    /\ (Started /\ x.pages_resp = "error_status") => x.failed_in # "enable_pages"

C3_Witness ==
    Started /\ x.pages_resp = "transport_error" /\ x.pc = "failed"

\* ---------------------------------------------------------------- C4
FullSchedule == <<Post, Sleep(1), Post, Sleep(2), Post, Sleep(4), Post, Sleep(8), Post>>

\* C4: notify_eval posts at most 5 times; the first POST is immediate, the
\* waits before POSTs 2..5 are 1, 2, 4 and 8 seconds, and the 5th POST is
\* followed by neither a wait nor a POST, whatever its result.
C4_NotifySchedule ==
    Started =>
        /\ IsPrefix(x.nlog, FullSchedule)
        /\ x.attempt <= 5
        /\ x.attempt = 5 => (x.pc = "completed" /\ x.nlog = FullSchedule)

C4_Witness ==
    Started /\ x.attempt = 5 /\ x.last = "500" /\ x.nlog = FullSchedule

\* ---------------------------------------------------------------- C5
\* C5: only status 200 is a success: a 200 ends notify_eval at once, and
\* after any other status or an exception notify_eval is still running (its
\* next POST follows) as long as fewer than 5 POSTs were made.
C5_Only200Succeeds ==
    Started =>
        /\ x.notified => x.last = "200"
        /\ x.last = "200" => (x.notified /\ x.pc = "completed")
        /\ (x.attempt \in 1..4 /\ x.last # "200") => x.pc = "notify_eval"

C5_Witness ==
    Started /\ x.attempt = 2 /\ x.last = "201" /\ x.pc = "notify_eval"

\* ---------------------------------------------------------------- C6
\* C6: notify_eval never raises: whatever the POSTs give (any status, a
\* timeout, a connection error), process_task does not fail in notify_eval.
C6_NotifyNeverRaises ==
    Started => (x.failed_in # "notify_eval" /\ (x.attempt > 0 => x.pc # "failed"))

C6_Witness ==
    Started /\ x.attempt = 5 /\ x.last = "exception" /\ x.pc = "completed"

\* ---------------------------------------------------------------- C7
\* the entry this execution wrote for its round is in the store st
RoundEntryStored(y, st) ==
    /\ y.data.task \in DOMAIN st
    /\ IF y.data.round = 1
       THEN /\ st[y.data.task].repoName = y.repo_name
            /\ st[y.data.task].commitSha = y.commit_sha
       ELSE /\ "round2" \in DOMAIN st[y.data.task]
            /\ st[y.data.task].round2.commitSha = y.commit_sha

\* C7: when the last notification attempt fails too, the execution ends
\* completed, and that step changes neither the store, which holds the entry
\* written for the round, nor anything at the hosting provider.
C7_NotifyFailureKeepsRound ==
    [][ (Started /\ x.pc = "notify_eval" /\ x'.pc # "notify_eval" /\ x'.last # "200")
           => /\ x'.pc = "completed"
              /\ store' = store /\ repos' = repos
              /\ RoundEntryStored(x', store')
              /\ push_target(x') \in DOMAIN repos'
              /\ repos'[push_target(x')].head = x'.commit_sha
      ]_vars

C7_Witness ==
    /\ Started /\ x.pc = "completed" /\ x.attempt = 5 /\ x.last # "200"
    /\ x.data.round = 2 /\ RoundEntryStored(x, store)

\* ---------------------------------------------------------------- C8
\* C8: when process_task begins for a request, build has already returned
\* the 200 acknowledgment echoing task and round with its timestamp, and the
\* acknowledgment is not changed by anything the execution does.
C8_AckBeforeOrchestration ==
    [][ /\ x'.pc # "none"
            => /\ x'.ack.status = 200
               /\ x'.ack.content.status = "accepted"
               /\ x'.ack.content.task = x'.data.task
               /\ x'.ack.content.round = x'.data.round
        /\ (Started /\ x'.pc # "none") => x'.ack = x.ack
      ]_vars

C8_Witness ==
    Started /\ x.pc = "failed" /\ x.ack.status = 200 /\ x.ack.content.task = x.data.task

\* ---------------------------------------------------------------- C9
\* the request carries a secret that is not the configured value
SecretMismatch ==
    /\ req.kind = "object" /\ "secret" \in req.keys
    /\ (expected = "unset" \/ req.secret # expected)

\* C9 as stated: every request whose secret does not match is answered 401,
\* whatever the rest of the payload.
C9_MismatchAlways401 ==
    (running = "build" /\ SecretMismatch) => resp.status = 401

\* C9 amended: every request that passes validate_request and whose secret
\* does not match the configured value is answered 401 "Invalid secret"; a
\* request that validate_request refuses is answered 400 whatever its secret.
C9_ValidMismatch401 ==
    /\ (running = "build" /\ SecretMismatch /\ validate_request(req).ok)
           => (resp.status = 401 /\ resp.detail.msg = "Invalid secret")
    /\ (running = "build" /\ SecretMismatch /\ ~validate_request(req).ok
          /\ ~validate_request(req).raised)
           => (resp.status = 400 /\ resp.detail = validate_request(req).err)

C9_Witness ==
    /\ running = "build" /\ SecretMismatch /\ validate_request(req).ok
    /\ expected = "good" /\ resp.status = 401

\* ---------------------------------------------------------------- C10
\* C10: every request that lacks a required field is answered 400 with a
\* reason naming a field that is missing from it.
C10_MissingFieldNamed ==
    (running = "build" /\ req.kind # "invalid" /\ MissingFields(req) # {})
        => /\ resp.status = 400
           /\ resp.detail.msg = "Missing required field"
           /\ resp.detail.field \in MissingFields(req)

Round2Order == <<"lookup", "generate_updates", "push_files", "save_tasks", "notify_eval">>

\* C11: a round-2 execution whose loaded store has a record for its task
\* goes lookup, generate_updates, push_files, save_tasks, notify_eval in
\* that order; it never calls create_repo and never sends the hosting
\* activation request or polls; the commit it publishes becomes the head of
\* the repository the record names; the round2 entry it stores carries that
\* commit; and every notification it posts carries round 2, the repoUrl and
\* pagesUrl of the stored record and the commit id push_files returned.
C11_Round2Flow ==
    (Started /\ x.data.round = 2 /\ x.data.task \in DOMAIN x.tasks) =>
        LET t == x.data.task
            info == x.tasks[t]
        IN  /\ IsPrefix(x.trace, Round2Order)
            /\ x.calls \cap {"create_repo", "pages_post", "pages_get"} = {}
            /\ x.repo_name = NoName
            /\ info.repoUrl = repo_url_of(info.repoName)
            /\ x.commit_sha # 0 =>
                  /\ info.repoName \in DOMAIN repos
                  /\ repos[info.repoName].head = x.commit_sha
                  /\ \E c \in repos[info.repoName].commits :
                        c.sha = x.commit_sha /\ x.files \subseteq c.files
            /\ x.saved =>
                  /\ x.commit_sha # 0
                  /\ t \in DOMAIN store
                  /\ store[t].round2.commitSha = x.commit_sha
            /\ x.attempt > 0 =>
                  /\ x.saved
                  /\ x.payload = [task |-> t, round |-> 2,
                                  repo_url |-> store[t].repoUrl,
                                  commit_sha |-> x.commit_sha,
                                  pages_url |-> store[t].pagesUrl]

C11_Witness ==
    /\ Started /\ x.data.round = 2 /\ x.pc = "completed"
    /\ x.notified /\ x.payload.round = 2 /\ x.payload.commit_sha = x.commit_sha

Round1Fields == {"email", "repoName", "repoUrl", "pagesUrl", "commitSha", "round1"}

\* the store after the step is the store before it with a round2 entry set
\* in the record of task t and nothing else touched
OnlyRound2Added(t) ==
    /\ t \in DOMAIN store
    /\ DOMAIN store' = DOMAIN store
    /\ \A u \in DOMAIN store \ {t} : store'[u] = store[u]
    /\ DOMAIN store'[t] = DOMAIN store[t] \cup {"round2"}
    /\ \A f \in Round1Fields : store'[t][f] = store[t][f]

\* C12: every step of a round-2 execution leaves the task store as it is,
\* except the step that persists, which only sets the round2 field of the
\* record of the execution's own task: the email, repoName, repoUrl,
\* pagesUrl, commitSha and round1 fields of that record and the records of
\* all other task ids are as before.
C12_Round2Frame ==
    [][(running = "task" /\ x.data.round = 2 /\ x.pc \notin Terminal)
           => (store' = store \/ OnlyRound2Added(x.data.task))]_vars

C12_Witness ==
    /\ Started /\ x.data.round = 2 /\ x.saved /\ x.pc = "completed"
    /\ Cardinality(DOMAIN store) = 2
    /\ "round2" \in DOMAIN store[x.data.task]
    /\ \E u \in DOMAIN store : "round2" \notin DOMAIN store[u]

\* C13: a record is never deleted: a task id that has a record in the
\* task store before a step has one after it.
C13_RecordNeverDeleted ==
    [][\A t \in DOMAIN store : t \in DOMAIN store']_vars

\* the text begins with the marker, in any case
BeginsWithDoctype(html) == html # <<>> /\ Upper(html)[1] = "<!DOCTYPE"

\* C14: in generate_code and in generate_updates, the text that is returned
\* as index.html from the model's reply begins, after fence extraction, with
\* a <!DOCTYPE marker in any case and contains a closing </html> tag.
C14_OnlyAcceptableTextReturned ==
    (gen.pc = "returned" /\ gen.files["index.html"].origin = "model") =>
        /\ BeginsWithDoctype(gen.html)
        /\ Contains(Lower(gen.html), "</html>")

\* C15: the generator never fails: no call of generate_code or
\* generate_updates raises, and a call that returned gave exactly
\* index.html, README.md and LICENSE (round 1) or index.html and README.md
\* (round 2).
C15_GeneratorNeverFails ==
    /\ gen.pc # "raised"
    /\ gen.pc = "returned" =>
          DOMAIN gen.files = IF gen.round = 1
                             THEN {"index.html", "README.md", "LICENSE"}
                             ELSE {"index.html", "README.md"}

\* C16: a call of push_files, in either variant, creates at most one commit;
\* when it returns it has created exactly one, which holds every file of the
\* file set, is what main points to, and has as its only parent the commit
\* main pointed to before the call, or no parent when there was no main.
C16_OneCommitOneParent ==
    pub.op \in PushOps =>
        /\ Cardinality(pub.made) <= 1
        /\ pub.pc = "returned" =>
              \E c \in repos[PubName].commits :
                  /\ pub.made = {c.sha}
                  /\ repos[PubName].head = c.sha
                  /\ PubPaths \subseteq c.files
                  /\ c.parents = IF pub.head0 = 0 THEN <<>> ELSE <<pub.head0>>

\* an update pushed after the create-or-update variant made the initial
\* commit of an empty repository
C16_Witness ==
    /\ pub.op = "push_files" /\ pub.pc = "returned" /\ pub.head0 # 0
    /\ [op |-> "push_files_create_or_update", result |-> "returned"] \in pub.before
    /\ \E c \in repos[PubName].commits : c.parents = <<>> /\ c.files = PubPaths
    /\ \E c \in repos[PubName].commits : c.parents = <<pub.head0>> /\ c.sha = pub.commit

\* C17: while enable_pages polls, it is in one of the passes 0..23, so it
\* polls at most 24 times, and it has slept 5 s before every poll but the
\* first; a poll that gives a success status is the last one; when the loop
\* ends, after a success or after pass 23 failed or raised, enable_pages
\* returns the URL made of owner and repository name and the round goes on
\* to persist, not to the failed state.
C17_PollBoundedAndHarmless ==
    [][At("enable_pages_poll") =>
          /\ x.poll_i <= MaxPolls - 1
          /\ x.poll_slept = PollPause * x.poll_i
          /\ ~x.pages_live
          /\ x'.pc = "enable_pages_poll" =>
                /\ ~x'.pages_live
                /\ x'.poll_i = x.poll_i + 1
                /\ x'.poll_slept = x.poll_slept + PollPause
          /\ x'.pc # "enable_pages_poll" =>
                /\ x'.pages_live \/ x.poll_i = MaxPolls - 1
                /\ x'.pc = "save_tasks"
                /\ x'.failed_in = ""
                /\ x'.pages_url = pages_url_of(x.repo_name)]_vars

\* a round whose 24 polls all failed was persisted and notified
C17_Witness ==
    /\ Started /\ x.data.round = 1 /\ x.pc = "completed"
    /\ "pages_get" \in x.calls /\ ~x.pages_live
    /\ x.saved /\ x.notified /\ x.pages_url = pages_url_of(x.repo_name)

\* C18: every execution of process_task that has started reaches the
\* terminal state completed or failed, given that each call it makes returns
\* or times out.
C18_ExecutionTerminates ==
    (running = "task") ~> (running = "task" /\ x.pc \in Terminal)

\* an execution that went through all 24 polls and all five notification
\* attempts, and ended
C18_Witness ==
    /\ Started /\ x.pc = "completed" /\ x.data.round = 1
    /\ ~x.pages_live /\ x.attempt = Len(delays) /\ ~x.notified

\* the operation that is being called was called before
CalledBefore == \E b \in pub.before : b.op = pub.op

\* C19: a publisher operation that is called again with the same arguments,
\* after an earlier call of it returned or stopped part-way, and that meets
\* no failure of the provider in this call, is not refused because of what
\* the earlier call left behind: the repository that call created.
C19_ReinvocationSucceeds ==
    (pub.pc = "raised" /\ CalledBefore /\ ~pub.faulted) =>
        ~(pub.cause = "exists" /\ pub.created)

\* C20: throughout a call of push_files, and so when it has returned or
\* raised, main points to the commit it pointed to before the call or to a
\* commit made by this call that holds every file of the file set; main is
\* moved only once every blob, the tree and the commit exist.
C20_PublishAtomic ==
    (pub.op \in PushOps /\ pub.pc # "idle") =>
        \/ head_of(repos, PubName) = pub.head0
        \/ /\ head_of(repos, PubName) = pub.commit
           /\ pub.commit \in pub.made
           /\ pub.blobs = PubPaths
           /\ PubPaths \subseteq pub.tree
           /\ PubPaths \subseteq files_at(repos, PubName, pub.commit)

\* a call that raised after it had created its commit: main has not moved
C20_Witness ==
    /\ pub.op \in PushOps /\ pub.pc = "raised" /\ pub.made # {}
    /\ pub.head0 # 0 /\ head_of(repos, PubName) = pub.head0

\* C21: push_files of app/github_ops.py tries to resolve main at most five
\* times and has slept 2 s after every failed try but the last; when the
\* fifth try fails it raises the error that names five attempts, and at
\* that point no blob, tree or commit was created and main has not moved.
C21_RefRetryBounded ==
    pub.op = "push_files" =>
        /\ pub.i <= max_retries - 1
        /\ pub.pc \notin {"idle", "get_repo"} => pub.slept = RetryPause * pub.i
        /\ pub.pc = "get_git_ref" =>
              pub.blobs = {} /\ pub.tree = {} /\ pub.made = {}
        /\ pub.reported # 0 <=> (pub.pc = "raised" /\ pub.cause = "not_ready")
        /\ pub.cause = "not_ready" =>
              /\ pub.i = max_retries - 1
              /\ pub.reported = max_retries
              /\ pub.blobs = {} /\ pub.tree = {} /\ pub.made = {} /\ pub.commit = 0
              /\ head_of(repos, PubName) = pub.head0

\* five tries failed on a repository whose main exists
C21_Witness ==
    /\ pub.op = "push_files" /\ pub.pc = "raised" /\ pub.cause = "not_ready"
    /\ pub.slept = RetryPause * (max_retries - 1) /\ pub.head0 # 0

\* C22: in the create-or-update variant of push_files, when main existed
\* before the call, the commit the call creates has that head commit as its
\* only parent and the call does not go on to create the reference, whether
\* or not reading the reference failed.
C22_NoParentOnlyWhenMainAbsent ==
    (pub.op = "push_files_create_or_update" /\ pub.head0 # 0) =>
        /\ pub.pc # "create_git_ref"
        /\ \A c \in repos[PubName].commits :
              c.sha \in pub.made => c.parents = <<pub.head0>>

\* the brief holds the key in some spelling or inside a longer word
Says(key) ==
    \E w \in gen.brief :
        \/ w \in {"csv", "CSV"} /\ key = "csv"
        \/ w \in {"Sales", "salesforce"} /\ key = "sales"
        \/ w = "Markdown" /\ key = "markdown"
        \/ w \in {"GitHub", "github"} /\ key = "github"
        \/ w \in {"Username", "user"} /\ key = "user"
        \/ w = "CAPTCHA" /\ key = "captcha"

\* C23 as stated: the template the fallback returns is the totals table for
\* a brief that mentions csv or sales, the tabbed view for one that mentions
\* markdown, the lookup form for one that mentions github and user, and the
\* hello-world page for any other brief; markup and script are of the same
\* variant.
C23_VariantByKeyword ==
    gen.pc = "returned" =>
        /\ (Says("csv") \/ Says("sales")) => gen.markup = "csv"
        /\ Says("markdown") => gen.markup = "markdown"
        /\ (Says("github") /\ Says("user")) => gen.markup = "github"
        /\ ~(Says("csv") \/ Says("sales") \/ Says("markdown")
               \/ (Says("github") /\ Says("user"))) => gen.markup = "hello"
        /\ gen.script = gen.markup

\* C23, amended: the template is of exactly one variant, the first that
\* matches in this order: the captcha viewer for a brief that mentions
\* captcha, else the totals table for csv or sales, else the tabbed view for
\* markdown, else the lookup form for github and user, else the hello-world
\* page; markup and script are of the same variant.
C23_FirstMatchingVariant ==
    gen.pc = "returned" =>
        LET captcha  == Says("captcha")
            csv      == Says("csv") \/ Says("sales")
            markdown == Says("markdown")
            github   == Says("github") /\ Says("user")
        IN  /\ captcha => gen.markup = "captcha"
            /\ (~captcha /\ csv) => gen.markup = "csv"
            /\ (~captcha /\ ~csv /\ markdown) => gen.markup = "markdown"
            /\ (~captcha /\ ~csv /\ ~markdown /\ github) => gen.markup = "github"
            /\ (~captcha /\ ~csv /\ ~markdown /\ ~github) => gen.markup = "hello"
            /\ gen.script = gen.markup

\* a brief that mentions markdown and, inside a longer word, sales
C23_Witness ==
    /\ gen.pc = "returned" /\ gen.brief = {"Markdown", "salesforce", "clock"}
    /\ gen.markup = "csv" /\ gen.script = "csv"

\* the body is one build answers 200 to
Accepted(body) == build_response(body, expected, 0).status = 200

\* C24: a request that build rejects (invalid JSON, a validation failure, a
\* secret mismatch) changes nothing but the response: while it is handled
\* and when its response is returned, no task is queued or started and the
\* store and the repositories stay as they are; every task that is queued
\* or running was created for a request that was accepted.
C24_RejectedNeverStarts ==
    [][/\ (running' = "build" /\ resp'.status # 200) =>
             UNCHANGED <<accepted, queue, x, store, repos, nextSha, now>>
       /\ (running = "build" /\ resp.status # 200) =>
             UNCHANGED <<accepted, queue, x, store, repos, nextSha, now>>
       /\ \A i \in DOMAIN queue' : Accepted(queue'[i].data)
       /\ x'.pc # "none" => Accepted(x'.data)]_vars

\* a request with a wrong secret was answered 401 and nothing was started
C24_Witness ==
    /\ running = "build" /\ resp.status = 401 /\ req.secret = "bad"
    /\ accepted = 0 /\ queue = <<>> /\ ~Started /\ store = EmptyMap /\ repos = EmptyMap

\* the number of times `step` was called and came back in the trace tr
RECURSIVE TimesIn(_, _)
TimesIn(tr, step) ==
    IF tr = <<>> THEN 0
    ELSE (IF Head(tr) = step THEN 1 ELSE 0) + TimesIn(Tail(tr), step)

\* the commit id the store holds for the round of the execution y, or 0
StoredCommit(y) ==
    LET t == y.data.task
    IN  IF t \notin DOMAIN store THEN 0
        ELSE IF y.data.round = 1
             THEN (IF store[t].round1.nonce = nonce_of(y.data)
                   THEN store[t].commitSha ELSE 0)
             ELSE (IF "round2" \in DOMAIN store[t]
                      /\ store[t].round2.nonce = nonce_of(y.data)
                   THEN store[t].round2.commitSha ELSE 0)

\* C25: once a POST to the evaluation URL was made for (task, round), the
\* save of that round has returned, the store holds the entry of that round
\* and the commit_sha of the payload is the commit id stored for the round;
\* notify_eval is called at most once in an execution, and only after
\* save_tasks.
C25_NotifyAfterSave ==
    /\ Started =>
        /\ TimesIn(x.trace, "notify_eval") <= 1
        /\ (x.pc = "notify_eval" \/ TimesIn(x.trace, "notify_eval") = 1) =>
              /\ x.saved
              /\ TimesIn(x.trace, "save_tasks") = 1
              /\ (x.pc = "notify_eval" => TimesIn(x.trace, "notify_eval") = 0)
        /\ x.attempt > 0 =>
              /\ x.saved
              /\ x.attempt <= Len(delays)
              /\ x.payload.task = x.data.task
              /\ x.payload.round = x.data.round
              /\ StoredCommit(x) # 0
              /\ x.payload.commit_sha = StoredCommit(x)

\* a round-2 execution has posted its notification for a task whose record
\* holds the commit of round 1 and, under round2, the commit of round 2
C25_Witness ==
    /\ Started /\ x.data.round = 2 /\ x.attempt > 0
    /\ x.payload.commit_sha = store[x.data.task].round2.commitSha
    /\ x.payload.commit_sha # store[x.data.task].commitSha

\* C26: no update to the task store is lost: the store changes only in the
\* save_tasks of the running execution, and that save keeps the record of
\* every other task id as the store held it, so the entries written by
\* earlier executions are all still there.
C26_NoLostUpdate ==
    [][/\ store' # store => At("save_tasks")
       /\ At("save_tasks") =>
             \A t \in DOMAIN store \ {x.data.task} :
                 t \in DOMAIN store' /\ store'[t] = store[t]]_vars

\* C27: when the save of a round-1 execution succeeds for a task id that
\* already has a record, the repository of the execution was created by it
\* under a name other than the one the old record holds, and the record
\* afterwards is that of the new execution alone: repoName, repoUrl,
\* pagesUrl, commitSha and round1 are those of the execution and there is no
\* round2 field, whatever the old record held.
C27_Round1ReplacesRecord ==
    [][(/\ At("save_tasks") /\ x.data.round = 1
        /\ x.data.task \in DOMAIN store
        /\ x'.saved) =>
          LET t   == x.data.task
              old == store[t]
              new == store'[t]
          IN  /\ "create_repo" \in x.calls
              /\ x.repo_name \in DOMAIN repos
              /\ x.repo_name # old.repoName
              /\ repos[x.repo_name].head = x.commit_sha
              /\ DOMAIN new = Round1Fields
              /\ "round2" \notin DOMAIN new
              /\ new.repoName = x.repo_name
              /\ new.repoUrl = repo_url_of(x.repo_name)
              /\ new.pagesUrl = pages_url_of(x.repo_name)
              /\ new.commitSha = x.commit_sha
              /\ new.commitSha # old.commitSha
              /\ new.round1.nonce = nonce_of(x.data)
              /\ new.round1.brief = brief_of(x.data)
              /\ new.round1.checks = x.data.checks]_vars

\* a round-1 execution has saved its record for a task id that had one, and
\* an older repository of the same task holds the commits of both rounds
C27_Witness ==
    /\ Started /\ x.data.round = 1 /\ x.saved /\ x.hadRecord
    /\ DOMAIN store[x.data.task] = Round1Fields
    /\ store[x.data.task].repoName = x.repo_name
    /\ \E n \in DOMAIN repos :
          /\ n # x.repo_name /\ n[1] = x.data.task
          /\ Cardinality(repos[n].commits) >= 3

====
